---- MODULE Spec2Model ----
(***************************************************************************)
(* Model of upload_report.py: one run of the tool is a process that        *)
(* validates a local archive, hashes it, uploads it to the bucket and      *)
(* merges a lifecycle rule into the bucket's lifecycle configuration.      *)
(* The bucket (its objects and its lifecycle rule set) is shared by all    *)
(* runs.  Strings the code takes apart (keys, error messages, paths) are   *)
(* sequences of tokens, so that split('/'), basename and the substring     *)
(* test are computed and not assumed.                                      *)
(***************************************************************************)
EXTENDS Integers, Sequences, FiniteSets, TLC

VARIABLES bucketRules, objects, proc, overlap

vars == <<bucketRules, objects, proc, overlap>>

\* ------------------------------------------------------------------ bounds
\* Runs of the tool executed one after the other (Spec, SpecAny).
NumRuns == 2
\* Runs of the tool executed concurrently (SpecConc).
NumConc == 2
\* Longest lifecycle rule set the bucket holds before the first run.
MaxRules == 2

\* ------------------------------------------------- constants of the script
SSENCRYPT == "AES256"
REPORT_NAME == <<"r", "e", "p", "o", "r", "t", ".", "z", "i", "p">>
S3_ACL == "public-read"
ExpirationDays == 3
HTTP_OK == 200

\* ------------------------------------------------------- string helpers
\* The tokens of s before the first "/": prefix.split('/')[0].
RECURSIVE SplitFirst(_)
SplitFirst(s) ==
    IF s = <<>> \/ Head(s) = "/" THEN <<>> ELSE <<Head(s)>> \o SplitFirst(Tail(s))

\* os.path.basename of a path given as its components.
Basename(path) == IF path = <<>> THEN "" ELSE path[Len(path)]

\* tok in str(e), the message being a sequence of tokens.
Contains(msg, tok) == \E i \in 1..Len(msg) : msg[i] = tok

\* ------------------------------------------------------------ local files
NoFile == [path |-> <<>>, kind |-> "none", bytes |-> ""]

\* A path names nothing (missing), a file that is no zip archive (notzip), a
\* sound archive (good) or a zip archive with a corrupt member (corrupt).
Files ==
    {[path |-> <<"demo.zip">>, kind |-> "missing", bytes |-> ""],
     [path |-> <<"demo.zip">>, kind |-> "notzip", bytes |-> "b1"],
     [path |-> <<"demo.zip">>, kind |-> "good", bytes |-> "b1"],
     [path |-> <<"tmp", "other.zip">>, kind |-> "corrupt", bytes |-> "b2"]}

Customers == {"Acme"}

\* hashlib.sha256 over the whole byte stream, as lowercase hex: one digest per
\* content, none holding a "/".
Sha256Hex(bytes) == IF bytes = "b1" THEN <<"a", "1">> ELSE <<"b", "2">>

Digests == {Sha256Hex("b1"), Sha256Hex("b2")}

\* --------------------------------------------------------- lifecycle rules
\* Rules the bucket may hold before the tool runs: written by earlier runs of
\* the tool's kind (an id that is a digest) or by somebody else.
OldRules ==
    {[ID |-> i, Prefix |-> i \o <<"/">>, Status |-> "Enabled", Expiration |-> [Days |-> 7]] :
        i \in Digests \cup {<<"x">>}}

RuleSeqs == UNION {[1..n -> OldRules] : n \in 0..MaxRules}

Count(rules, id) == Cardinality({i \in 1..Len(rules) : rules[i].ID = id})

NoRepeatedID(rules) ==
    \A i, j \in 1..Len(rules) : rules[i].ID = rules[j].ID => i = j

\* The rule built for the folder alone, not for the key of the upload.
newlifecycleruleFolder(prefix) ==
    LET lifecycleid == SplitFirst(prefix)
    IN  [Status |-> "Enabled", Prefix |-> lifecycleid \o <<"/">>,
         Expiration |-> [Days |-> ExpirationDays], ID |-> lifecycleid]

newlifecyclerule(prefix) ==
    LET lifecycleid == SplitFirst(prefix)
    IN  [Status |-> "Enabled", Prefix |-> prefix,
         Expiration |-> [Days |-> ExpirationDays], ID |-> lifecycleid]

\* ------------------------------------------------------------ one process
\* A run that has not been started.  index is 1-based, 0 standing for None.
\* upload, getres, geterr, clearres, putres, fetched, before, after and putBody
\* record what the run's storage calls returned, found and sent.
NewProc ==
    [pc |-> "start", filename |-> NoFile, customer |-> "", targetfolder |-> <<>>,
     prefix |-> <<>>, bucket_lifecycle_cfg |-> [Rules |-> <<>>], index |-> 0,
     trace |-> <<>>, stdout |-> <<>>, exitcode |-> -1,
     upload |-> 0, getres |-> "none", geterr |-> <<>>, clearres |-> "none",
     putres |-> "none",
     fetched |-> <<>>, before |-> <<>>, after |-> <<>>, putBody |-> [Rules |-> <<>>]]

\* The process ends with status code; rules is the bucket's rule set it leaves.
Exit(pr, code, rules) == [pr EXCEPT !.pc = "exit", !.exitcode = code, !.after = rules]

Say(pr, line) == [pr EXCEPT !.stdout = Append(@, line)]

Called(pr, call) == [pr EXCEPT !.trace = Append(@, call)]

\* A step's outcome: the bucket's rule set, its objects and the process after it.
Outcome(rules, objs, pr) == [rules |-> rules, objs |-> objs, pr |-> pr]

\* main, up to the call of getFolderName: the command line is parsed.
MainStep(rules, objs, pr) ==
    {Outcome(rules, objs, [pr EXCEPT !.pc = "verifyzip", !.filename = f, !.customer = c]) :
        f \in Files, c \in Customers}

\* IOError and BadZipfile end the process; testzip's answer is not looked at.
VerifyFails(f) == f.kind \in {"missing", "notzip"}

verifyzip(rules, objs, pr) ==
    LET p1 == Called(pr, "verifyzip")
    IN  IF VerifyFails(pr.filename)
        THEN {Outcome(rules, objs,
                      Exit(Say(p1, [line |-> IF pr.filename.kind = "missing"
                                              THEN "IOError" ELSE "Error: BadZipfile"]),
                           1, rules))}
        ELSE {Outcome(rules, objs, [p1 EXCEPT !.pc = "sha256"])}

\* getFolderName after verifyzip: the digest of the file's bytes.
getFolderName(rules, objs, pr) ==
    {Outcome(rules, objs,
             [Called(pr, "sha256") EXCEPT !.pc = "put_object",
                                          !.targetfolder = Sha256Hex(pr.filename.bytes)])}

\* What put_object may answer: a response with a status code, or ClientError.
UploadAnswers == {[raised |-> FALSE, status |-> HTTP_OK],
                  [raised |-> FALSE, status |-> 500],
                  [raised |-> TRUE, status |-> 0]}

\* The status test taking every status below 600 for a success.
UploadSucceededAny(status) == status < 600

\* The status test of uploadToS3: anything but 200 ends the process.
UploadSucceeded(status) == status = HTTP_OK

UploadedObject(pr, key) ==
    [Key |-> key, Body |-> pr.filename.bytes, ACL |-> S3_ACL,
     ContentType |-> "application/zip", ServerSideEncryption |-> SSENCRYPT,
     Metadata |-> [customer |-> pr.customer, originalFile |-> Basename(pr.filename.path)]]

uploadToS3(rules, objs, pr) ==
    LET key == pr.targetfolder \o <<"/">> \o REPORT_NAME
        p1  == Called(pr, "put_object")
        stored == {o \in objs : o.Key # key} \cup {UploadedObject(pr, key)}
    IN  {IF a.raised
         THEN Outcome(rules, objs, Exit([p1 EXCEPT !.upload = -1], 1, rules))
         ELSE IF UploadSucceeded(a.status)
         THEN Outcome(rules, stored,
                      [Say(p1, [line |-> "Upload Successful"])
                          EXCEPT !.pc = "get_lifecycle", !.upload = a.status, !.prefix = key])
         ELSE Outcome(rules, objs,
                      Exit(Say([p1 EXCEPT !.upload = a.status], [line |-> "Upload failed"]),
                           1, rules)) :
         a \in UploadAnswers}

\* ------------------------------------------------------ setLifecycleConfig
NoSuchMsg == <<"An error occurred ", "(NoSuchLifecycleConfiguration)",
               " when calling the GetBucketLifecycleConfiguration operation">>

DeniedMsg == <<"An error occurred ", "(AccessDenied)",
               " when calling the GetBucketLifecycleConfiguration operation">>

\* What get_bucket_lifecycle_configuration may answer for a bucket holding
\* rules: the rule set with the transport's metadata beside it, ClientError
\* NoSuchLifecycleConfiguration when the bucket has none, or another ClientError.
GetAnswers(rules) ==
    (IF rules = <<>>
     THEN {[raised |-> TRUE, msg |-> NoSuchMsg, body |-> [Rules |-> <<>>]]}
     ELSE {[raised |-> FALSE, msg |-> <<>>,
            body |-> [Rules |-> rules, ResponseMetadata |-> [HTTPStatusCode |-> HTTP_OK]]]})
    \cup {[raised |-> TRUE, msg |-> DeniedMsg, body |-> [Rules |-> <<>>]]}

\* The test for the error's code without its brackets, which the message
\* never holds as a token of its own.
IsNoSuchConfigBare(msg) == Contains(msg, "NoSuchLifecycleConfiguration")

\* The test of the except clause: '(NoSuchLifecycleConfiguration)' in str(e).
IsNoSuchConfig(msg) == Contains(msg, "(NoSuchLifecycleConfiguration)")

\* dict.pop(key), a KeyError passed over.
Pop(d, key) == [k \in (DOMAIN d) \ {key} |-> d[k]]

\* The scan: index ends as the last position whose ID is id, 0 when none is.
RECURSIVE ScanFrom(_, _, _, _)
ScanFrom(Rules, id, i, index) ==
    IF i > Len(Rules) THEN index
    ELSE ScanFrom(Rules, id, i + 1, IF Rules[i].ID = id THEN i ELSE index)

\* The scan with a test that never matches: no rule is ever found.
ScanIndexNever(Rules, id) == ScanFrom(Rules, <<"/">> \o id, 1, 0)

ScanIndex(Rules, id) == ScanFrom(Rules, id, 1, 0)

\* The removal one position off: del Rules[index - 1].
DelAtOffByOne(Rules, index) ==
    IF index = 1 THEN Rules
    ELSE SubSeq(Rules, 1, index - 2) \o SubSeq(Rules, index, Len(Rules))

\* del Rules[index]
DelAt(Rules, index) == SubSeq(Rules, 1, index - 1) \o SubSeq(Rules, index + 1, Len(Rules))

\* The fetch, the pop, the scan and the removal from the local copy.
GetLifecycle(rules, objs, pr) ==
    LET Answered(a) == [Called(pr, "get_lifecycle") EXCEPT
                            !.before = rules, !.geterr = a.msg,
                            !.getres = IF a.raised THEN "raised" ELSE "ok"]
    IN  {IF a.raised /\ ~IsNoSuchConfig(a.msg)
         THEN Outcome(rules, objs,
                      Exit(Say(Answered(a), [line |-> "Error getting lifecycle configuration"]),
                           1, rules))
         ELSE LET got   == IF a.raised THEN [Rules |-> <<>>] ELSE a.body
                  cfg   == Pop(got, "ResponseMetadata")
                  index == ScanIndex(cfg.Rules, SplitFirst(pr.prefix))
              IN  Outcome(rules, objs,
                          [Answered(a) EXCEPT
                              !.fetched = got.Rules,
                              !.index = index,
                              !.bucket_lifecycle_cfg =
                                  IF index # 0
                                  THEN [cfg EXCEPT !.Rules = DelAt(cfg.Rules, index)]
                                  ELSE cfg,
                              !.pc = IF index # 0 THEN "delete_lifecycle"
                                                  ELSE "put_lifecycle"]) :
         a \in GetAnswers(rules)}

\* bucket_lifecycle.delete(): the bucket's whole configuration is cleared, or
\* ClientError is raised, which nothing catches.
ClearLifecycle(rules, objs, pr) ==
    LET p1 == Called(pr, "delete_lifecycle")
    IN  {Outcome(<<>>, objs, [p1 EXCEPT !.clearres = "ok", !.pc = "put_lifecycle"]),
         Outcome(rules, objs, Exit([p1 EXCEPT !.clearres = "error"], 1, rules))}

\* The write-back handled as the fetch is: its error ends the process.
PutErrorExits == TRUE

\* The except clause of the write-back prints and goes on.
PutErrorIsFatal == FALSE

\* The line main prints last.
UploadRecord(pr) ==
    [line |-> "record", timestamp |-> "now", customer |-> pr.customer,
     originalFile |-> Basename(pr.filename.path), digest |-> pr.targetfolder]

\* The new rule written alone, the fetched rules dropped.
AppendRuleAlone(Rules, prefix) == <<newlifecyclerule(prefix)>>

\* bucket_lifecycle_cfg['Rules'].append(newlifecyclerule(prefix))
AppendRule(Rules, prefix) == Append(Rules, newlifecyclerule(prefix))

\* The append, the write-back of the whole local copy, and main's last line.
\* A body holding a key other than Rules is refused by the client before it
\* is sent, with an error that is no ClientError and that nothing catches.
PutLifecycle(rules, objs, pr) ==
    LET cfg  == [pr.bucket_lifecycle_cfg EXCEPT !.Rules = AppendRule(@, pr.prefix)]
        p1   == [Called(pr, "put_lifecycle") EXCEPT
                    !.bucket_lifecycle_cfg = cfg, !.putBody = cfg]
        ok   == Exit(Say([p1 EXCEPT !.putres = "ok"], UploadRecord(p1)), 0, cfg.Rules)
        said == Say([p1 EXCEPT !.putres = "error"],
                    [line |-> "Error with lifecycle configuration"])
        err  == IF PutErrorIsFatal THEN Exit(said, 1, rules)
                ELSE Exit(Say(said, UploadRecord(p1)), 0, rules)
    IN  IF DOMAIN cfg # {"Rules"}
        THEN {Outcome(rules, objs, Exit([p1 EXCEPT !.putres = "invalid"], 1, rules))}
        ELSE {Outcome(cfg.Rules, objs, ok), Outcome(rules, objs, err)}

\* ------------------------------------------------------------- the system
InitWith(rules, n) ==
    /\ bucketRules = rules
    /\ objects = {}
    /\ proc = [p \in 1..n |-> NewProc]
    /\ overlap = FALSE

\* The bucket holds no rule set or one in which no id occurs twice.
Init == \E rules \in {r \in RuleSeqs : NoRepeatedID(r)} : InitWith(rules, NumRuns)

\* The bucket holds any rule set, ids repeated or not.
InitAny == \E rules \in RuleSeqs : InitWith(rules, NumRuns)

InitConc == \E rules \in {r \in RuleSeqs : NoRepeatedID(r)} : InitWith(rules, NumConc)

\* Process p takes one step, with one of the step's outcomes.
Do(p, outcomes) ==
    \E o \in outcomes :
        /\ bucketRules' = o.rules
        /\ objects' = o.objs
        /\ proc' = [proc EXCEPT ![p] = o.pr]

At(p, pc) == proc[p].pc = pc

\* A run is inside the read-modify-write from its fetch to its write-back.
InMerge(q) == proc[q].pc \in {"delete_lifecycle", "put_lifecycle"}

Start(p) ==
    /\ At(p, "start")
    /\ Do(p, MainStep(bucketRules, objects, proc[p]))
    /\ UNCHANGED overlap

\* Runs one after the other: run p starts when run p - 1 has ended.
StartSerial(p) ==
    /\ IF p = 1 THEN TRUE ELSE proc[p - 1].pc = "exit"
    /\ Start(p)

VerifyZip(p) ==
    /\ At(p, "verifyzip")
    /\ Do(p, verifyzip(bucketRules, objects, proc[p]))
    /\ UNCHANGED overlap

Hash(p) ==
    /\ At(p, "sha256")
    /\ Do(p, getFolderName(bucketRules, objects, proc[p]))
    /\ UNCHANGED overlap

Upload(p) ==
    /\ At(p, "put_object")
    /\ Do(p, uploadToS3(bucketRules, objects, proc[p]))
    /\ UNCHANGED overlap

Get(p) ==
    /\ At(p, "get_lifecycle")
    /\ Do(p, GetLifecycle(bucketRules, objects, proc[p]))
    /\ overlap' = (overlap \/ \E q \in DOMAIN proc : q # p /\ InMerge(q))

Clear(p) ==
    /\ At(p, "delete_lifecycle")
    /\ Do(p, ClearLifecycle(bucketRules, objects, proc[p]))
    /\ UNCHANGED overlap

Put(p) ==
    /\ At(p, "put_lifecycle")
    /\ Do(p, PutLifecycle(bucketRules, objects, proc[p]))
    /\ UNCHANGED overlap

Next ==
    \/ \E p \in 1..NumRuns : StartSerial(p)
    \/ \E p \in 1..NumRuns : VerifyZip(p)
    \/ \E p \in 1..NumRuns : Hash(p)
    \/ \E p \in 1..NumRuns : Upload(p)
    \/ \E p \in 1..NumRuns : Get(p)
    \/ \E p \in 1..NumRuns : Clear(p)
    \/ \E p \in 1..NumRuns : Put(p)

NextConc ==
    \/ \E p \in 1..NumConc : Start(p)
    \/ \E p \in 1..NumConc : VerifyZip(p)
    \/ \E p \in 1..NumConc : Hash(p)
    \/ \E p \in 1..NumConc : Upload(p)
    \/ \E p \in 1..NumConc : Get(p)
    \/ \E p \in 1..NumConc : Clear(p)
    \/ \E p \in 1..NumConc : Put(p)

\* Runs of the tool one after the other, the bucket's rule set without repeats.
Spec == Init /\ [][Next]_vars

\* Runs one after the other, the bucket holding any rule set before them.
SpecAny == InitAny /\ [][Next]_vars

\* Runs of the tool at the same time against one bucket.
SpecConc == InitConc /\ [][NextConc]_vars

\* ------------------------------------------------------------ the claims
Ended(p) == proc[p].pc = "exit"

\* The write-back of run p was sent (and accepted or refused).
WroteBack(p) == proc[p].putres \in {"ok", "error"}

\* The rules of a set whose id is not id, in their order.
RECURSIVE Others(_, _)
Others(rules, id) ==
    IF rules = <<>> THEN <<>>
    ELSE IF Head(rules).ID = id THEN Others(Tail(rules), id)
    ELSE <<Head(rules)>> \o Others(Tail(rules), id)

\* The rule an upload of the archive with this digest is to leave.
ExpectedRule(digest) ==
    [ID |-> digest, Prefix |-> digest \o <<"/">> \o REPORT_NAME, Status |-> "Enabled",
     Expiration |-> [Days |-> 3]]

\* The upsert by id of the rule for digest into a rule set.
Upsert(rules, digest) == Others(rules, digest) \o <<ExpectedRule(digest)>>

\* C1 as stated: after any run whose write-back succeeded the bucket's rule
\* set holds no id twice, whatever rule set the bucket held before the run,
\* one with several rules of the uploaded digest's id included.
C1_AnyRuleSetBefore ==
    \A p \in DOMAIN proc :
        Ended(p) /\ proc[p].putres = "ok" =>
            /\ NoRepeatedID(proc[p].after)
            /\ Count(proc[p].after, proc[p].targetfolder) <= 1

\* C1 as amended: after a run whose write-back succeeded and whose fetched
\* rule set held no id twice, the bucket's rule set holds no id twice and
\* holds exactly one rule with the uploaded digest's id.
C1_AtMostOnePerId ==
    \A p \in DOMAIN proc :
        Ended(p) /\ proc[p].putres = "ok" /\ NoRepeatedID(proc[p].fetched) =>
            /\ NoRepeatedID(proc[p].after)
            /\ Count(proc[p].after, proc[p].targetfolder) = 1

C1_Witness ==
    \E p \in DOMAIN proc :
        /\ Ended(p) /\ proc[p].putres = "ok"
        /\ NoRepeatedID(proc[p].fetched)
        /\ Len(proc[p].fetched) >= 2
        /\ Count(proc[p].fetched, proc[p].targetfolder) = 1

C4_OtherRulesKept ==
    \A p \in DOMAIN proc :
        Ended(p) /\ proc[p].getres # "none" =>
            Others(proc[p].after, proc[p].targetfolder)
                = Others(proc[p].before, proc[p].targetfolder)

\* C5: a run whose write-back fails still prints the upload record
\* {timestamp, customer, original filename, digest}, ends with status 0, and
\* the object it uploaded is in the bucket.
C5_WriteBackFailureNotFatal ==
    \A p \in DOMAIN proc :
        proc[p].putres = "error" =>
            LET f == proc[p].filename
                out == proc[p].stdout
            IN  /\ Ended(p) /\ proc[p].exitcode = 0
                /\ out[Len(out)] = [line |-> "record", timestamp |-> "now",
                                    customer |-> proc[p].customer,
                                    originalFile |-> f.path[Len(f.path)],
                                    digest |-> Sha256Hex(f.bytes)]
                /\ \E o \in objects :
                      /\ o.Key = Sha256Hex(f.bytes) \o <<"/">> \o REPORT_NAME
                      /\ o.Body = f.bytes

C5_Witness ==
    \E p \in DOMAIN proc : proc[p].putres = "error" /\ proc[p].clearres = "ok"

\* The calls of a run in the order main makes them, the clear left out when
\* no rule was found.
CallOrder == <<"verifyzip", "sha256", "put_object", "get_lifecycle", "delete_lifecycle",
               "put_lifecycle">>

CallOrderNoClear == <<"verifyzip", "sha256", "put_object", "get_lifecycle", "put_lifecycle">>

IsPrefix(s, t) == Len(s) <= Len(t) /\ SubSeq(t, 1, Len(s)) = s

InTrace(p, call) == \E i \in 1..Len(proc[p].trace) : proc[p].trace[i] = call

StorageCalls == {"put_object", "get_lifecycle", "delete_lifecycle", "put_lifecycle"}

\* C6: the fetch ends the process exactly when it raises an error other than
\* 'no configuration': the status is then non-zero, no clear and no
\* write-back is issued and the bucket's rule set is as before; on 'no
\* configuration' the run goes on with an empty rule set, issues no clear and
\* writes back the new rule alone.
C6_FetchFailure ==
    \A p \in DOMAIN proc :
        LET pr == proc[p]
            endedAtFetch == Ended(p) /\ pr.trace[Len(pr.trace)] = "get_lifecycle"
        IN  pr.getres # "none" =>
              /\ endedAtFetch <=> (pr.getres = "raised" /\ pr.geterr # NoSuchMsg)
              /\ endedAtFetch =>
                    /\ pr.exitcode # 0
                    /\ ~InTrace(p, "delete_lifecycle") /\ ~InTrace(p, "put_lifecycle")
                    /\ pr.after = pr.before /\ pr.clearres = "none" /\ pr.putres = "none"
              /\ pr.geterr = NoSuchMsg =>
                    /\ pr.fetched = <<>> /\ ~InTrace(p, "delete_lifecycle")
                    /\ IF Ended(p)
                       THEN /\ WroteBack(p)
                            /\ pr.putBody = [Rules |-> <<ExpectedRule(pr.targetfolder)>>]
                       ELSE pr.pc = "put_lifecycle" /\ pr.bucket_lifecycle_cfg = [Rules |-> <<>>]

C6_Witness ==
    \E p, q \in DOMAIN proc :
        /\ Ended(p) /\ proc[p].geterr = DeniedMsg /\ proc[p].before # <<>>
        /\ Ended(q) /\ proc[q].geterr = NoSuchMsg /\ proc[q].putres = "ok"

\* C7: a run validates the archive, computes the digest, uploads the object
\* and merges the lifecycle rule in that order; a run whose archive is missing
\* or no valid archive ends non-zero with no storage call issued, and a run
\* whose upload did not return success ends non-zero with no lifecycle get,
\* clear or put issued.
C7_StepsGateEachOther ==
    \A p \in DOMAIN proc :
        LET pr == proc[p]
        IN  /\ IsPrefix(pr.trace, CallOrder) \/ IsPrefix(pr.trace, CallOrderNoClear)
            /\ pr.filename.kind \in {"missing", "notzip"} /\ pr.trace # <<>> =>
                  /\ Ended(p) /\ pr.exitcode # 0
                  /\ \A c \in StorageCalls : ~InTrace(p, c)
                  /\ pr.trace = <<"verifyzip">> /\ pr.upload = 0
            /\ pr.upload \notin {0, 200} =>
                  /\ Ended(p) /\ pr.exitcode # 0
                  /\ pr.trace = <<"verifyzip", "sha256", "put_object">>
                  /\ pr.getres = "none" /\ pr.clearres = "none" /\ pr.putres = "none"

C7_Witness ==
    \E p, q \in DOMAIN proc :
        /\ Ended(p) /\ proc[p].filename.kind = "notzip"
        /\ Ended(q) /\ proc[q].upload = 500

\* Run p is past the point of the clear: its fetch did not end it, and it is
\* not about to clear.
PastClear(p) ==
    \/ proc[p].pc = "put_lifecycle"
    \/ Ended(p) /\ (InTrace(p, "delete_lifecycle") \/ InTrace(p, "put_lifecycle"))

ClearBeforePut(p) ==
    \A i, j \in 1..Len(proc[p].trace) :
        proc[p].trace[i] = "delete_lifecycle" /\ proc[p].trace[j] = "put_lifecycle" => i < j

\* C8 as stated: the clear is issued if and only if the fetched set held a
\* rule with the digest's id, it comes before the write-back, and the
\* write-back is attempted after it whether the clear succeeded or not.
C8_WriteBackAfterAnyClear ==
    \A p \in DOMAIN proc :
        /\ PastClear(p) =>
              (InTrace(p, "delete_lifecycle") <=> Count(proc[p].fetched, proc[p].targetfolder) > 0)
        /\ ClearBeforePut(p)
        /\ Ended(p) /\ InTrace(p, "delete_lifecycle") => InTrace(p, "put_lifecycle")

\* C8 as amended: the clear is issued if and only if the fetched set held a
\* rule with the digest's id and it comes before the write-back; the
\* write-back is attempted after a clear that succeeded, and a clear that
\* fails ends the process non-zero with no write-back and the rule set kept.
C8_ClearThenWriteBack ==
    \A p \in DOMAIN proc :
        /\ PastClear(p) =>
              (InTrace(p, "delete_lifecycle") <=> Count(proc[p].fetched, proc[p].targetfolder) > 0)
        /\ ClearBeforePut(p)
        /\ Ended(p) /\ proc[p].clearres = "ok" =>
              InTrace(p, "put_lifecycle") /\ WroteBack(p)
        /\ proc[p].clearres = "error" =>
              /\ Ended(p) /\ proc[p].exitcode # 0
              /\ ~InTrace(p, "put_lifecycle") /\ proc[p].putres = "none"
              /\ proc[p].after = proc[p].before

C8_Witness ==
    \E p, q \in DOMAIN proc :
        /\ Ended(p) /\ proc[p].clearres = "ok" /\ WroteBack(p)
        /\ Ended(q) /\ proc[q].clearres = "error"

\* Runs other than p and q have not changed the bucket's rule set.
OnlyWriters(p, q) ==
    \A r \in DOMAIN proc \ {p, q} : proc[r].clearres # "ok" /\ proc[r].putres # "ok"

BothSucceeded(p, q) ==
    /\ p # q /\ Ended(p) /\ Ended(q)
    /\ proc[p].exitcode = 0 /\ proc[q].exitcode = 0
    /\ proc[p].putres = "ok" /\ proc[q].putres = "ok"
    /\ proc[p].targetfolder # proc[q].targetfolder
    /\ OnlyWriters(p, q)

\* C9: two runs with distinct digests whose read-modify-writes do not overlap
\* and whose write-backs both succeed leave the rules of both digests in the
\* bucket; the witness is the lost update, reached when they do overlap: both
\* fetch, both write back and exit with status 0, and the rule of one digest
\* only is held.
C9_SerialKeepsBoth ==
    \A p, q \in DOMAIN proc :
        BothSucceeded(p, q) /\ ~overlap =>
            /\ Count(bucketRules, proc[p].targetfolder) = 1
            /\ Count(bucketRules, proc[q].targetfolder) = 1

C9_LostUpdate ==
    \E p, q \in DOMAIN proc :
        /\ BothSucceeded(p, q) /\ overlap
        /\ proc[p].getres # "none" /\ proc[q].getres # "none"
        /\ Count(bucketRules, proc[p].targetfolder) = 0
        /\ Count(bucketRules, proc[q].targetfolder) = 1

\* ------------------------------------------- interleavings of the merge
\* A run that has uploaded the archive with this digest and is about to fetch.
AtMerge(digest) ==
    [NewProc EXCEPT !.pc = "get_lifecycle", !.targetfolder = digest,
                    !.prefix = digest \o <<"/">> \o REPORT_NAME]

\* The outcomes of the step of setLifecycleConfig the run is at.
MergeStep(rules, objs, pr) ==
    CASE pr.pc = "get_lifecycle" -> GetLifecycle(rules, objs, pr)
      [] pr.pc = "delete_lifecycle" -> ClearLifecycle(rules, objs, pr)
      [] pr.pc = "put_lifecycle" -> PutLifecycle(rules, objs, pr)
      [] OTHER -> {}

\* The states one step of one run leads to, from the state s of a bucket and
\* of the runs merging into it.
MergeSucc(s) ==
    UNION {{[rules |-> o.rules, objs |-> o.objs, procs |-> [s.procs EXCEPT ![p] = o.pr]] :
               o \in MergeStep(s.rules, s.objs, s.procs[p])} :
           p \in DOMAIN s.procs}

\* Every state some interleaving of the runs' steps reaches from those of S.
RECURSIVE MergeReach(_)
MergeReach(S) ==
    LET T == S \cup UNION {MergeSucc(s) : s \in S}
    IN  IF T = S THEN S ELSE MergeReach(T)

\* C10 as stated: from a rule set in which no id occurs twice, some
\* interleaving of the fetch, clear and write-back steps of the runs leaves
\* the bucket with two rules of the same id.
C10_SomeInterleavingDuplicates ==
    (\A p \in DOMAIN proc : At(p, "start")) /\ NoRepeatedID(bucketRules) =>
        \E digests \in [DOMAIN proc -> Digests] :
            \E s \in MergeReach({[rules |-> bucketRules, objs |-> objects,
                                  procs |-> [p \in DOMAIN proc |-> AtMerge(digests[p])]]}) :
                ~NoRepeatedID(s.rules)

\* C10 as amended: from a rule set in which no id occurs twice, no
\* interleaving of the runs' fetch, clear and write-back steps leaves two
\* rules of the same id: the bucket's rule set and every run's local copy of
\* it hold each id at most once.
C10_NoDuplicates ==
    /\ NoRepeatedID(bucketRules)
    /\ \A p \in DOMAIN proc : NoRepeatedID(proc[p].bucket_lifecycle_cfg.Rules)

C10_Witness ==
    \E p, q \in DOMAIN proc :
        /\ p # q /\ overlap
        /\ Ended(p) /\ Ended(q)
        /\ proc[p].putres = "ok" /\ proc[q].putres = "ok"
        /\ proc[p].targetfolder = proc[q].targetfolder
        /\ proc[p].index = 0 /\ proc[q].index = 0
        /\ Count(bucketRules, proc[p].targetfolder) = 1

====
